---- MODULE Spec2Model ----
(***************************************************************************)
(* Model of generate_sky (python/generate_sky.py): the sun-altitude filter *)
(* of the candidate time grid, the per-timestamp evaluation of the sky     *)
(* brightness model, the validity mask, and the adaptive compaction of the *)
(* retained samples.                                                       *)
(*                                                                         *)
(* Units.  Times are minutes since mjd0 (the code converts minutes to      *)
(* days; only differences and comparisons of times are used).  Angles are  *)
(* thousandths: a value in degrees*1000 goes into Radians and a value in   *)
(* radians*1000 comes out.  Airmass and magnitudes are tenths.  The        *)
(* interpolation weights are kept exact by multiplying the comparison      *)
(* through by (mjd3 - mjd1) > 0.                                           *)
(***************************************************************************)
EXTENDS Integers, Sequences, FiniteSets, TLC

VARIABLES
    pc,              \* position in generate_sky
    timestep_max,    \* argument timestep_max (minutes)
    duration,        \* argument duration (minutes after mjd0 covered by the grid)
    sunAlts,         \* sun altitude of every grid timestamp (lines 29, 43-46)
    mjds,            \* the candidate timestamps (lines 28, 48)
    idx,             \* index of the next candidate the loop of line 80 takes
    dict_of_lists,   \* the four parallel lists: airmass, sunAlts, mjds, masks
    sky_brightness,  \* per filter, the list of retained magnitude maps
    last_5_mjds,     \* history: timestamps of the last 5 evaluated samples
    last_5_mags,     \* history: magnitudes of the last 5 evaluated samples
    artifact,        \* what np.savez wrote (empty until saved)
    evaluated,       \* history variable: every evaluated sample, in order
    decision,        \* history variable: what the last loop iteration decided
    decisions        \* history variable: every decision taken so far

vars == <<pc, timestep_max, duration, sunAlts, mjds, idx, dict_of_lists,
          sky_brightness, last_5_mjds, last_5_mags, artifact, evaluated,
          decision, decisions>>

-----------------------------------------------------------------------------
(* Bounds of the model *)

\* number of timestamps of the fine grid
MaxGrid == 5

\* number of sky locations (np.size(ra))
NLoc == 2

Loc == 1..NLoc

-----------------------------------------------------------------------------
(* Arguments of generate_sky, line 10-13 *)

mjd0 == 0
timestep == 5
sunLimitArg == 0 - 12000
airmass_overhead == 15
dm == 2
airmass_limit == 25
moon_dist_limit == 30000
planet_dist_limit == 4000
airmass_floor == 10
HistorySize == 5
MinDecide == 3

\* np.radians on thousandths: x * pi / 180
Radians(x) == (x * 17453) \div 1000000

\* line 19
sunLimit == Radians(sunLimitArg)

\* line 68
filter_names == <<"u", "g", "r", "i", "z", "y">>
Filters == {filter_names[k] : k \in 1..Len(filter_names)}

\* line 40
planets == <<"Venus", "Mars", "Jupiter", "Saturn">>
Planets == {planets[k] : k \in 1..Len(planets)}

\* not-a-number magnitude
NaN == 0 - 9999
IsNaN(x) == x = NaN

-----------------------------------------------------------------------------
(* Sequence helpers *)

\* del s[-2]
DelSecondLast(s) == [k \in 1..(Len(s) - 1) |-> IF k < Len(s) - 1 THEN s[k] ELSE s[Len(s)]]

\* del s[-1] for del s[0]
DelFirst_newest(s) == SubSeq(s, 1, Len(s) - 1)

\* del s[0]
DelFirst(s) == Tail(s)

Abs(x) == IF x < 0 THEN 0 - x ELSE x

\* np.arange(start, stop, step)
RECURSIVE Arange(_, _, _)
Arange(start, stop, step) ==
    IF start >= stop THEN <<>> ELSE <<start>> \o Arange(start + step, stop, step)

\* mjds[np.where(cond)]
RECURSIVE WhereSeq(_, _, _)
WhereSeq(s, alts, limit) ==
    IF s = <<>> THEN <<>>
    ELSE (IF Head(alts) <= limit THEN <<Head(s)>> ELSE <<>>)
         \o WhereSeq(Tail(s), Tail(alts), limit)


\* np.where(last_5_mjds == mjd2)[0]: the timestamps of the history are
\* distinct, so this is the one index that holds x
IndexOf(s, x) == CHOOSE k \in 1..Len(s) : s[k] = x

-----------------------------------------------------------------------------
(* The external oracles: what they can answer in the model *)

\* sun.alt of ephem (radians*1000): well below the limit, between the limit
\* and the horizon, above the horizon
SunAltVals == {0 - 350, 0 - 100, 100}

\* sm.sunAlt of the brightness model (radians*1000)
SmSunAltVals == {0 - 350, 0 - 100}

\* an angle beyond every exclusion radius
FarAngle == 2 * Radians(moon_dist_limit)

\* one sky location as the brightness model and the ephemeris report it:
\* its airmass, its separation from the moon, its distance to each planet
\* and its magnitude per filter.  near names the body (if any) that sits
\* exactly at its exclusion radius; every other body is far away.
Pixel(am, nr, mg) ==
    [ airmass |-> am,
      moonTargSep |-> IF nr = "moon" THEN Radians(moon_dist_limit) ELSE FarAngle,
      distances |-> [p \in Planets |->
                        IF nr = p THEN Radians(planet_dist_limit) ELSE FarAngle],
      mags |-> mg ]

FlatMag(v) == [f \in Filters |-> v]
OnlyY(v) == [f \in Filters |-> IF f = "y" THEN v ELSE 0]

Clear0 == Pixel(12, "none", FlatMag(0))
Clear4 == Pixel(12, "none", OnlyY(4))
High4 == Pixel(20, "none", OnlyY(4))
Saturn4 == Pixel(12, "Saturn", OnlyY(4))
ClearNaN == Pixel(12, "none", FlatMag(NaN))
Low0 == Pixel(30, "none", FlatMag(0))

\* the skies of the compaction runs: location 1 and the other locations
SkyCases ==
    { <<Clear0, Clear0>>, <<Clear4, Clear0>>, <<High4, Clear0>>,
      <<Saturn4, Clear0>>, <<ClearNaN, Clear0>>, <<Low0, Low0>> }

PixelAt(c, l) == IF l = 1 THEN c[1] ELSE c[2]

\* what sm.setRaDecMjd / sm.returnMags / planet.compute + haversine give
\* for one timestamp (lines 85, 87, 108-111)
Sample(alt, px) ==
    [ sunAlt |-> alt,
      airmass |-> [l \in Loc |-> px[l].airmass],
      moonTargSep |-> [l \in Loc |-> px[l].moonTargSep],
      distances |-> [p \in Planets |-> [l \in Loc |-> px[l].distances[p]]],
      mags |-> [f \in Filters |-> [l \in Loc |-> px[l].mags[f]]] ]

SkyInputs ==
    { Sample(alt, [l \in Loc |-> PixelAt(c, l)]) : alt \in SmSunAltVals, c \in SkyCases }

\* the skies of the mask runs: one location takes one of these, the others
\* are all alike, in the mask or out of it: an airmass at or next to the floor or the ceiling with the moon
\* and the planets just beyond their limits, or the moon or one planet at
\* exactly its limit with the others just beyond theirs
MaskAirmassVals ==
    {airmass_floor - 1, airmass_floor, airmass_limit, airmass_limit + 1}
MaskPixel(am, nr) ==
    [ airmass |-> am,
      moonTargSep |-> IF nr = "moon" THEN Radians(moon_dist_limit)
                      ELSE Radians(moon_dist_limit) + 1,
      distances |-> [p \in Planets |->
                        IF p = nr THEN Radians(planet_dist_limit)
                        ELSE Radians(planet_dist_limit) + 1],
      mags |-> FlatMag(0) ]
MaskPixels ==
    {MaskPixel(am, "none") : am \in MaskAirmassVals}
        \cup {MaskPixel(airmass_limit, nr) : nr \in Planets \cup {"moon"}}

MaskBases == {MaskPixel(airmass_limit, "none"), MaskPixel(airmass_limit + 1, "none")}
MaskSkies ==
    { [l \in Loc |-> IF l = l0 THEN p ELSE base] :
      l0 \in Loc, p \in MaskPixels, base \in MaskBases }

MaskInputs ==
    { Sample(alt, px) : alt \in SmSunAltVals, px \in MaskSkies }

-----------------------------------------------------------------------------
(* The validity mask, lines 99-114 *)

\* line 102
AirmassMasked(am) == (am > airmass_limit) \/ (am < airmass_floor)

\* line 105
MoonMasked(sep) == sep <= Radians(moon_dist_limit)

\* line 112 with < for <=
PlanetMasked_strict(dist) == dist < Radians(planet_dist_limit)

\* line 112
PlanetMasked(dist) == dist <= Radians(planet_dist_limit)

MaskOf(s) ==
    [l \in Loc |-> \/ AirmassMasked(s.airmass[l])
                   \/ MoonMasked(s.moonTargSep[l])
                   \/ \E k \in 1..Len(planets) : PlanetMasked(s.distances[planets[k]][l])]

-----------------------------------------------------------------------------
(* The compaction decision, lines 116-146 *)

\* line 116 with >= for >
Decides_three(dl) == Len(dl.airmass) >= MinDecide

\* line 116
Decides(dl) == Len(dl.airmass) > MinDecide

\* lines 118-121: np.where over the last two entries of the lists
Overhead(dl) ==
    LET n == Len(dl.airmass)
    IN  {l \in Loc : /\ dl.airmass[n][l] <= airmass_overhead
                     /\ dl.airmass[n - 1][l] <= airmass_overhead
                     /\ ~dl.masks[n][l]
                     /\ ~dl.masks[n - 1][l]}

\* the test of line 124 with <= for <
GapOk_inclusive(dl) ==
    LET n == Len(dl.mjds) IN dl.mjds[n] - dl.mjds[n - 2] <= timestep_max

\* lines 123-124, second operand
GapOk(dl) ==
    LET n == Len(dl.mjds) IN dl.mjds[n] - dl.mjds[n - 2] < timestep_max

\* the weights of lines 133-134 swapped
DiffExceeds_swapped(m, left, right, mjd1, mjd2, mjd3) ==
    /\ ~IsNaN(m) /\ ~IsNaN(left) /\ ~IsNaN(right)
    /\ Abs(m * (mjd3 - mjd1) - ((mjd2 - mjd1) * left + (mjd3 - mjd2) * right))
          > dm * (mjd3 - mjd1)

\* lines 132-141 for one filter and one location, times (mjd3 - mjd1):
\* a NaN on either side gives a NaN diff, which line 139 leaves out
DiffExceeds(m, left, right, mjd1, mjd2, mjd3) ==
    /\ ~IsNaN(m) /\ ~IsNaN(left) /\ ~IsNaN(right)
    /\ Abs(m * (mjd3 - mjd1) - ((mjd3 - mjd2) * left + (mjd2 - mjd1) * right))
          > dm * (mjd3 - mjd1)

\* line 129
Between(mjd1, mjd2, mjd3) == (mjd2 > mjd1) /\ (mjd2 < mjd3)

\* the loop of line 135 stopping after the first filter
CanInterp_firstFilter(dl, sb, h_mjds, h_mags, overhead) ==
    LET n == Len(dl.mjds)
        mjd1 == dl.mjds[n - 2]
        mjd3 == dl.mjds[n]
    IN  \A k \in 1..Len(h_mjds) :
            Between(mjd1, h_mjds[k], mjd3) =>
                LET indx == IndexOf(h_mjds, h_mjds[k])
                IN  \A l \in overhead :
                        ~DiffExceeds(h_mags[indx][filter_names[1]][l],
                                     sb[filter_names[1]][n - 2][l],
                                     sb[filter_names[1]][n][l],
                                     mjd1, h_mjds[k], mjd3)

\* lines 125-141
CanInterp(dl, sb, h_mjds, h_mags, overhead) ==
    LET n == Len(dl.mjds)
        mjd1 == dl.mjds[n - 2]
        mjd3 == dl.mjds[n]
    IN  \A k \in 1..Len(h_mjds) :
            Between(mjd1, h_mjds[k], mjd3) =>
                LET indx == IndexOf(h_mjds, h_mjds[k])
                IN  \A j \in 1..Len(filter_names) : \A l \in overhead :
                        ~DiffExceeds(h_mags[indx][filter_names[j]][l],
                                     sb[filter_names[j]][n - 2][l],
                                     sb[filter_names[j]][n][l],
                                     mjd1, h_mjds[k], mjd3)

\* lines 143-144 with del [-3] for del [-2]
DropFromLists_third(dl) ==
    [key \in DOMAIN dl |->
        [k \in 1..(Len(dl[key]) - 1) |->
            IF k < Len(dl[key]) - 2 THEN dl[key][k] ELSE dl[key][k + 1]]]

\* lines 143-144
DropFromLists(dl) == [key \in DOMAIN dl |-> DelSecondLast(dl[key])]

\* lines 145-146 with del [-1] for del [-2]
DropFromBands_last(sb) == [key \in DOMAIN sb |-> SubSeq(sb[key], 1, Len(sb[key]) - 1)]

\* lines 145-146
DropFromBands(sb) == [key \in DOMAIN sb |-> DelSecondLast(sb[key])]

\* line 92 appending mjd0 for mjd
RetainedStamp_mjd0(mjd) == mjd0

\* line 92: the timestamp that goes into the mjds list
RetainedStamp(mjd) == mjd

\* lines 93-97 with a history one entry shorter
PushHistory_short(h, x) ==
    LET h1 == Append(h, x) IN IF Len(h1) > HistorySize - 1 THEN DelFirst(h1) ELSE h1

\* lines 93-97
PushHistory(h, x) ==
    LET h1 == Append(h, x) IN IF Len(h1) > HistorySize THEN DelFirst(h1) ELSE h1

NoDecision ==
    [made |-> FALSE, left |-> 0, mid |-> 0, right |-> 0, overhead |-> {},
     gap_ok |-> FALSE, can_interp |-> FALSE, dropped |-> FALSE]


-----------------------------------------------------------------------------
(* generate_sky as a state machine *)

\* line 22
mjd_max == mjd0 + duration

EmptyLists == [airmass |-> <<>>, sunAlts |-> <<>>, mjds |-> <<>>, masks |-> <<>>]
EmptyBands == [f \in Filters |-> <<>>]

\* the arguments of the compaction runs
TimestepMaxArgs == {15, 20}

InitWith(gaps, dur) ==
    /\ pc = "sun"
    /\ timestep_max \in gaps
    /\ duration = dur
    /\ sunAlts = <<>>
    /\ mjds = <<>>
    /\ idx = 1
    /\ dict_of_lists = EmptyLists
    /\ sky_brightness = EmptyBands
    /\ last_5_mjds = <<>>
    /\ last_5_mags = <<>>
    /\ artifact = <<>>
    /\ evaluated = <<>>
    /\ decision = NoDecision
    /\ decisions = {}

Init == InitWith(TimestepMaxArgs, (MaxGrid - 1) * timestep)

\* lines 28-46: the fine grid and the sun altitude of each of its timestamps
ComputeSunAlts ==
    /\ pc = "sun"
    /\ LET grid == Arange(mjd0, mjd_max + timestep, timestep)
       IN  /\ mjds' = grid
           /\ sunAlts' \in [1..Len(grid) -> SunAltVals]
    /\ pc' = "filter"
    /\ UNCHANGED <<timestep_max, duration, idx, dict_of_lists, sky_brightness,
                   last_5_mjds, last_5_mags, artifact, evaluated, decision, decisions>>

\* line 48: the limit of line 19 goes through np.radians once more.
\* sunAlts is never read after this line and the model forgets it here.
FilterGrid ==
    /\ pc = "filter"
    /\ mjds' = WhereSeq(mjds, sunAlts, Radians(sunLimit))
    /\ sunAlts' = <<>>
    /\ pc' = "setup"
    /\ UNCHANGED <<timestep_max, duration, idx, dict_of_lists, sky_brightness,
                   last_5_mjds, last_5_mags, artifact, evaluated, decision, decisions>>

\* lines 50-78: mjds[-1] of line 76 raises IndexError on an empty array
SetUp ==
    /\ pc = "setup"
    /\ dict_of_lists' = EmptyLists
    /\ sky_brightness' = EmptyBands
    /\ pc' = IF Len(mjds) = 0 THEN "crashed" ELSE "loop"
    /\ idx' = 1
    /\ last_5_mjds' = <<>>
    /\ last_5_mags' = <<>>
    /\ UNCHANGED <<timestep_max, duration, sunAlts, mjds, artifact, evaluated,
                   decision, decisions>>

\* line 86 with the threshold of line 48
SunDown_prefilter(alt) == alt <= Radians(sunLimit)

\* line 86: the test on the sun altitude the brightness model reports
SunDown(alt) == alt <= sunLimit

\* lines 80-86 with the test of line 86 false
SkipSample(s) ==
    /\ pc = "loop"
    /\ idx <= Len(mjds)
    /\ ~SunDown(s.sunAlt)
    /\ idx' = idx + 1
    /\ decision' = NoDecision
    /\ UNCHANGED <<pc, timestep_max, duration, sunAlts, mjds, dict_of_lists,
                   sky_brightness, last_5_mjds, last_5_mags, artifact, evaluated,
                   decisions>>

\* lines 116-146 on the lists dl1 and sb1 that hold the new sample and the
\* history h_mjds, h_mags: the decision and the lists it leaves
Compact(dl1, sb1, h_mjds, h_mags) ==
    IF Decides(dl1)
    THEN \E overhead \in {Overhead(dl1)} :
         \E gap_ok \in {GapOk(dl1)} :
         \E can_interp \in {(Cardinality(overhead) > 0) /\ gap_ok
                              /\ CanInterp(dl1, sb1, h_mjds, h_mags, overhead)} :
         \E made \in {[made |-> TRUE, left |-> dl1.mjds[Len(dl1.mjds) - 2],
                        mid |-> dl1.mjds[Len(dl1.mjds) - 1],
                        right |-> dl1.mjds[Len(dl1.mjds)], overhead |-> overhead,
                        gap_ok |-> gap_ok, can_interp |-> can_interp,
                        dropped |-> can_interp]} :
            /\ dict_of_lists' = IF can_interp THEN DropFromLists(dl1) ELSE dl1
            /\ sky_brightness' = IF can_interp THEN DropFromBands(sb1) ELSE sb1
            /\ decision' = made
            /\ decisions' = decisions \cup {made}
    ELSE /\ dict_of_lists' = dl1
         /\ sky_brightness' = sb1
         /\ decision' = NoDecision
         /\ decisions' = decisions

\* lines 80-146 with the test of line 86 true: one whole loop iteration.
\* Lines 81-84 only print the progress (a division of numpy floats, which
\* does not raise when length is 0) and change no state.
EvaluateSample(s) ==
    /\ pc = "loop"
    /\ idx <= Len(mjds)
    /\ SunDown(s.sunAlt)
    /\ \E mask \in {MaskOf(s)} :
           /\ last_5_mjds' = PushHistory(last_5_mjds, mjds[idx])
           /\ last_5_mags' = PushHistory(last_5_mags, s.mags)
           /\ evaluated' = Append(evaluated,
                                   [mjd |-> mjds[idx], sample |-> s, mask |-> mask])
           /\ Compact([airmass |-> Append(dict_of_lists.airmass, s.airmass),
                       sunAlts |-> Append(dict_of_lists.sunAlts, s.sunAlt),
                       mjds |-> Append(dict_of_lists.mjds, RetainedStamp(mjds[idx])),
                       masks |-> Append(dict_of_lists.masks, mask)],
                      [f \in Filters |-> Append(sky_brightness[f], s.mags[f])],
                      last_5_mjds', last_5_mags')
    /\ idx' = idx + 1
    /\ UNCHANGED <<pc, timestep_max, duration, sunAlts, mjds, artifact>>

\* lines 147-156: the loop is over, the lists become arrays and are saved
Save ==
    /\ pc = "loop"
    /\ idx > Len(mjds)
    /\ artifact' = <<[dict_of_lists |-> dict_of_lists, sky_brightness |-> sky_brightness]>>
    /\ pc' = "done"
    /\ UNCHANGED <<timestep_max, duration, sunAlts, mjds, idx, dict_of_lists,
                   sky_brightness, last_5_mjds, last_5_mags, evaluated, decision, decisions>>

Next ==
    \/ ComputeSunAlts
    \/ FilterGrid
    \/ SetUp
    \/ \E s \in SkyInputs : SkipSample(s)
    \/ \E s \in SkyInputs : EvaluateSample(s)
    \/ Save

Spec == Init /\ [][Next]_vars

\* the mask runs: a grid of two timestamps, every sky of MaskInputs
InitMask == InitWith({20}, timestep)

NextMask ==
    \/ ComputeSunAlts
    \/ FilterGrid
    \/ SetUp
    \/ \E s \in MaskInputs : SkipSample(s)
    \/ \E s \in MaskInputs : EvaluateSample(s)
    \/ Save

SpecMask == InitMask /\ [][NextMask]_vars

\* the history runs: a grid long enough for the history to overflow, a
\* timestep_max of six and of seven timesteps, and two skies
HistGaps == {6 * timestep, 7 * timestep}
HistCases == {<<Clear0, Clear0>>, <<Clear4, Clear0>>}
HistInputs ==
    {Sample(alt, [l \in Loc |-> PixelAt(c, l)]) : alt \in SmSunAltVals, c \in HistCases}

InitHist == InitWith(HistGaps, (MaxGrid + 2) * timestep)

NextHist ==
    \/ ComputeSunAlts
    \/ FilterGrid
    \/ SetUp
    \/ \E s \in HistInputs : SkipSample(s)
    \/ \E s \in HistInputs : EvaluateSample(s)
    \/ Save

SpecHist == InitHist /\ [][NextHist]_vars


-----------------------------------------------------------------------------
(* Vocabulary of the properties *)

Range(s) == {s[k] : k \in 1..Len(s)}

\* the evaluated sample of timestamp t
EvalAt(t) == CHOOSE e \in Range(evaluated) : e.mjd = t
MagAt(t, f, l) == EvalAt(t).sample.mags[f][l]

\* the decisions that removed their middle sample
Drops == {d \in decisions : d.dropped}

Retained == dict_of_lists.mjds

SetMax(S) == CHOOSE x \in S : \A y \in S : y <= x
SetMin(S) == CHOOSE x \in S : \A y \in S : x <= y

\* the weighted difference of line 138, times (mjd3 - mjd1); 0 for a NaN
DiffTimesSpan(m, left, right, mjd1, mjd2, mjd3) ==
    IF IsNaN(m) \/ IsNaN(left) \/ IsNaN(right) THEN 0
    ELSE Abs(m * (mjd3 - mjd1) - ((mjd3 - mjd2) * left + (mjd2 - mjd1) * right))

\* m is off the line from left to right by more than dm (NaN never is)
OffLine(m, left, right, mjd1, mjd2, mjd3) ==
    DiffTimesSpan(m, left, right, mjd1, mjd2, mjd3) > dm * (mjd3 - mjd1)

-----------------------------------------------------------------------------
(* C1 *)

\* the saved lists
Saved == artifact[1]
SavedIndex(t) == CHOOSE k \in 1..Len(Saved.dict_of_lists.mjds) : Saved.dict_of_lists.mjds[k] = t
SavedLeft(t) == SetMax({x \in Range(Saved.dict_of_lists.mjds) : x < t})
SavedRight(t) == SetMin({x \in Range(Saved.dict_of_lists.mjds) : x > t})

\* C1, as claimed: in the saved output, every removed sample is within dm
\* of the line between the two saved samples that bracket it, for every
\* filter and every location of the overhead set of the decision that
\* removed it.
C1_FinalErrorBound ==
    pc = "done" =>
        \A d \in Drops : \A f \in Filters : \A l \in d.overhead :
            ~OffLine(MagAt(d.mid, f, l),
                     Saved.sky_brightness[f][SavedIndex(SavedLeft(d.mid))][l],
                     Saved.sky_brightness[f][SavedIndex(SavedRight(d.mid))][l],
                     SavedLeft(d.mid), d.mid, SavedRight(d.mid))

\* C1, amended: at the decision that removes a sample, the sample is within
\* dm of the line between the two samples that become adjacent in the lists
\* (left = [-3], right = [-1] before the removal), for every filter and
\* every location of the overhead set of that decision, NaN values aside.
C1_DropTimeErrorBound ==
    decision.dropped =>
        LET n == Len(Retained)
        IN  /\ Retained[n - 1] = decision.left
            /\ Retained[n] = decision.right
            /\ \A f \in Filters : \A l \in decision.overhead :
                   ~OffLine(MagAt(decision.mid, f, l),
                            sky_brightness[f][n - 1][l], sky_brightness[f][n][l],
                            decision.left, decision.mid, decision.right)

\* a removal of a sample that lies off the centre of its neighbours and
\* off their line (by no more than dm) at an overhead location
C1_Witness ==
    /\ decision.dropped
    /\ decision.mid - decision.left # decision.right - decision.mid
    /\ \E f \in Filters : \E l \in decision.overhead :
           DiffTimesSpan(MagAt(decision.mid, f, l), MagAt(decision.left, f, l),
                         MagAt(decision.right, f, l),
                         decision.left, decision.mid, decision.right) > 0


-----------------------------------------------------------------------------
(* C2 *)

\* C2: a sample is removed only if the two samples that become adjacent by
\* the removal are less than timestep_max apart.
C2_NoDropAcrossMaxGap ==
    \A d \in Drops : d.right - d.left < timestep_max

\* a sample was removed, and at the last decision the middle sample was
\* kept although the overhead set is not empty and every sample between
\* its neighbours is on their line: they are timestep_max or more apart
C2_Witness ==
    /\ Drops # {}
    /\ decision.made /\ ~decision.dropped
    /\ decision.overhead # {}
    /\ decision.right - decision.left >= timestep_max
    /\ CanInterp(dict_of_lists, sky_brightness, last_5_mjds, last_5_mags,
                 decision.overhead)

-----------------------------------------------------------------------------
(* C3 *)

\* some evaluated sample lies strictly between a and b
RemovedBetween(a, b) == \E e \in Range(evaluated) : a < e.mjd /\ e.mjd < b

\* a decision that had a or b as its left, middle or right sample
DecisionsAbout(a, b) == {d \in decisions : {d.left, d.mid, d.right} \cap {a, b} # {}}

\* C3, as claimed: in the saved output, two consecutive timestamps are less
\* than timestep_max apart, or the overhead set of a decision about them
\* was empty.
C3_GapBound ==
    pc = "done" =>
        \A k \in 1..(Len(Saved.dict_of_lists.mjds) - 1) :
            LET a == Saved.dict_of_lists.mjds[k]
                b == Saved.dict_of_lists.mjds[k + 1]
            IN  \/ b - a < timestep_max
                \/ \E d \in DecisionsAbout(a, b) : d.overhead = {}

\* C3, amended: two consecutive retained timestamps that a removal made
\* adjacent are less than timestep_max apart; a gap of timestep_max or more
\* is only ever the gap between two consecutively evaluated samples.
C3_RemovalGapBound ==
    \A k \in 1..(Len(Retained) - 1) :
        RemovedBetween(Retained[k], Retained[k + 1]) =>
            Retained[k + 1] - Retained[k] < timestep_max

\* a saved output in which two removals made a pair adjacent that is one
\* timestep short of timestep_max apart
C3_Witness ==
    /\ pc = "done"
    /\ \E k \in 1..(Len(Retained) - 1) :
           /\ Retained[k + 1] - Retained[k] = timestep_max - timestep
           /\ Cardinality({d \in Drops : Retained[k] < d.mid /\ d.mid < Retained[k + 1]}) >= 2

-----------------------------------------------------------------------------
(* C4 *)

StrictlyIncreasing(s) == \A k \in 1..(Len(s) - 1) : s[k] < s[k + 1]

\* a is b with some entries left out
RECURSIVE IsSubseq(_, _)
IsSubseq(a, b) ==
    IF a = <<>> THEN TRUE
    ELSE IF b = <<>> THEN FALSE
    ELSE IF Head(a) = Head(b) THEN IsSubseq(Tail(a), Tail(b))
    ELSE IsSubseq(a, Tail(b))

\* C4: during the loop and in the saved output, the retained timestamps
\* are strictly increasing and a subsequence of the filtered candidates.
C4_Monotonic ==
    /\ pc \in {"loop", "done"} =>
           StrictlyIncreasing(Retained) /\ IsSubseq(Retained, mjds)
    /\ pc = "done" =>
           /\ StrictlyIncreasing(Saved.dict_of_lists.mjds)
           /\ IsSubseq(Saved.dict_of_lists.mjds, mjds)

\* a saved output of at least three samples after a removal and a skipped
\* candidate
C4_Witness ==
    /\ pc = "done"
    /\ Drops # {}
    /\ Len(evaluated) < Len(mjds)
    /\ Len(Saved.dict_of_lists.mjds) >= 3


-----------------------------------------------------------------------------
(* C5 *)

\* location l is at or below airmass_overhead and unmasked in sample e
Good(e, l) == e.sample.airmass[l] <= airmass_overhead /\ ~e.mask[l]

AllOverhead == \A e \in Range(evaluated) : \A l \in Loc : Good(e, l)

\* exactly three samples were evaluated, one timestep apart, and the
\* second is exactly on the line between the first and the third
ThreeOnALine ==
    /\ Len(evaluated) = 3
    /\ evaluated[2].mjd - evaluated[1].mjd = timestep
    /\ evaluated[3].mjd - evaluated[2].mjd = timestep
    /\ evaluated[3].mjd - evaluated[1].mjd < timestep_max
    /\ AllOverhead
    /\ \A f \in Filters : \A l \in Loc :
          /\ ~IsNaN(evaluated[1].sample.mags[f][l])
          /\ ~IsNaN(evaluated[2].sample.mags[f][l])
          /\ ~IsNaN(evaluated[3].sample.mags[f][l])
          /\ 2 * evaluated[2].sample.mags[f][l]
                = evaluated[1].sample.mags[f][l] + evaluated[3].sample.mags[f][l]

\* C5, as claimed: a run of exactly three evaluated samples one timestep
\* apart, all locations overhead and unmasked, the second exactly on the
\* line between the first and the third, saves only the first and the
\* third.
C5_ThreeSampleDrop ==
    (pc = "done" /\ ThreeOnALine) =>
        Saved.dict_of_lists.mjds = <<evaluated[1].mjd, evaluated[3].mjd>>

-----------------------------------------------------------------------------
(* C6 *)

\* the middle sample of decision d is more than dm off the line between
\* its left and right samples in some filter at some location
Deviates(d) ==
    \E f \in Filters : \E l \in Loc :
        OffLine(MagAt(d.mid, f, l), MagAt(d.left, f, l), MagAt(d.right, f, l),
                d.left, d.mid, d.right)

\* C6: when every location is overhead and unmasked in every sample, a
\* middle sample that deviates by more than dm from the line between its
\* left and right neighbours is kept by that decision, stays in the lists
\* and is in the saved output.
C6_DeviatingKept ==
    AllOverhead =>
        \A d \in decisions :
            Deviates(d) =>
                /\ ~d.dropped
                /\ d.mid \in Range(Retained)
                /\ pc = "done" => d.mid \in Range(Saved.dict_of_lists.mjds)

\* a saved all-overhead run with a decision whose neighbours are less than
\* timestep_max apart and whose middle sample deviates
C6_Witness ==
    /\ pc = "done"
    /\ AllOverhead
    /\ \E d \in decisions : Deviates(d) /\ d.gap_ok /\ d.overhead = Loc

-----------------------------------------------------------------------------
(* C7 *)

\* C7, as claimed: a run whose filtered candidate list is empty goes on to
\* the end and saves an artifact with four empty lists and six empty
\* magnitude arrays.
C7_EmptyRunCompletes ==
    (Len(mjds) = 0 /\ pc \notin {"sun", "filter", "setup"}) =>
        /\ pc \in {"loop", "done"}
        /\ pc = "done" =>
              artifact = <<[dict_of_lists |-> EmptyLists, sky_brightness |-> EmptyBands]>>


-----------------------------------------------------------------------------
(* C8 *)

\* the mask of the specification for location l of sample s
ShouldMask(s, l) ==
    \/ s.airmass[l] > airmass_limit
    \/ s.airmass[l] < airmass_floor
    \/ s.moonTargSep[l] <= Radians(moon_dist_limit)
    \/ \E p \in {"Venus", "Mars", "Jupiter", "Saturn"} :
          s.distances[p][l] <= Radians(planet_dist_limit)

\* C8: every mask in the lists is, location by location, True exactly when
\* the airmass is above airmass_limit or below 1.0, or the moon separation
\* is at most moon_dist_limit, or some planet is at most planet_dist_limit
\* away, all taken from the sample of the mask's own timestamp.
C8_MaskCorrect ==
    \A k \in 1..Len(dict_of_lists.masks) : \A l \in Loc :
        dict_of_lists.masks[k][l] <=> ShouldMask(EvalAt(dict_of_lists.mjds[k]).sample, l)

\* two retained masks that differ, one with a location excluded by nothing
\* but Saturn at exactly planet_dist_limit and a location left in with its
\* airmass at the floor or the ceiling
C8_Witness ==
    /\ Cardinality(Range(dict_of_lists.masks)) >= 2
    /\ \E k \in 1..Len(dict_of_lists.masks) :
        LET s == EvalAt(dict_of_lists.mjds[k]).sample
        IN  /\ \E l \in Loc :
                  /\ dict_of_lists.masks[k][l]
                  /\ ~AirmassMasked(s.airmass[l])
                  /\ ~MoonMasked(s.moonTargSep[l])
                  /\ \A p \in Planets : PlanetMasked(s.distances[p][l]) <=> p = "Saturn"
            /\ \E l \in Loc :
                  /\ ~dict_of_lists.masks[k][l]
                  /\ s.airmass[l] \in {airmass_floor, airmass_limit}

-----------------------------------------------------------------------------
(* C9 *)

ListLengths ==
    {Len(dict_of_lists[key]) : key \in DOMAIN dict_of_lists}
        \cup {Len(sky_brightness[f]) : f \in DOMAIN sky_brightness}

\* C9: the four lists and the six magnitude lists have one length; the
\* entries at each index are the airmass, sun altitude, mask and magnitudes
\* computed for the sample of the timestamp at that index; the saved
\* artifact holds the lists as they are.
C9_Lockstep ==
    /\ Cardinality(ListLengths) = 1
    /\ DOMAIN sky_brightness = Filters
    /\ \A k \in 1..Len(Retained) :
          LET e == EvalAt(Retained[k])
          IN  /\ dict_of_lists.airmass[k] = e.sample.airmass
              /\ dict_of_lists.sunAlts[k] = e.sample.sunAlt
              /\ dict_of_lists.masks[k] = e.mask
              /\ \A f \in Filters : sky_brightness[f][k] = e.sample.mags[f]
    /\ pc = "done" =>
          /\ Saved.dict_of_lists = dict_of_lists
          /\ Saved.sky_brightness = sky_brightness

\* a saved output after a removal, holding samples that differ in airmass,
\* mask and magnitudes
C9_Witness ==
    /\ pc = "done"
    /\ Drops # {}
    /\ Cardinality(Range(dict_of_lists.airmass)) >= 2
    /\ Cardinality(Range(dict_of_lists.masks)) >= 2
    /\ Cardinality(Range(sky_brightness["y"])) >= 2

-----------------------------------------------------------------------------
(* C10 *)

\* C10, as claimed: the overhead set of every decision is the set of the
\* locations that are at or below airmass_overhead and unmasked in the
\* left and in the right sample.
C10_OverheadFromLeftAndRight ==
    \A d \in decisions :
        d.overhead = {l \in Loc : Good(EvalAt(d.left), l) /\ Good(EvalAt(d.right), l)}


-----------------------------------------------------------------------------
(* C11 *)

\* the locations that are at or below airmass_overhead and unmasked in the
\* left and in the right sample of decision d
LeftRightOverhead(d) ==
    {l \in Loc : Good(EvalAt(d.left), l) /\ Good(EvalAt(d.right), l)}

\* C11, as claimed: a decision at which no location is overhead and
\* unmasked in both the left and the right sample keeps its middle sample.
C11_EmptyOverheadKeeps ==
    \A d \in decisions : LeftRightOverhead(d) = {} => ~d.dropped

-----------------------------------------------------------------------------
(* C12 *)

\* the positions of the history whose timestamp lies strictly between the
\* left and the right sample of the last decision
InInterval == {k \in 1..Len(last_5_mjds) :
                  Between(decision.left, last_5_mjds[k], decision.right)}

\* the history sample at position k is within dm of the line between the
\* left and the right sample of the last decision, in every filter and at
\* every location of S
WithinDm(k, S) ==
    \A f \in Filters : \A l \in S :
        ~OffLine(last_5_mags[k][f][l], MagAt(decision.left, f, l),
                 MagAt(decision.right, f, l),
                 decision.left, last_5_mjds[k], decision.right)

\* C12, as claimed: the middle sample is removed only if every sample of
\* the history strictly between left and right is within dm of the line from
\* left to right, in every band and at every overhead location (overhead and
\* unmasked at left and at right).
C12_InIntervalWithinDm ==
    decision.dropped =>
        \A k \in InInterval : WithinDm(k, LeftRightOverhead(decision))

\* C12 on the overhead set the decision computed: the outcome is a function
\* of that set, the gap and the history samples strictly between left and
\* right; no other history sample takes part.
C12_DecisionFromInInterval ==
    decision.made =>
        (decision.dropped <=>
            /\ decision.overhead # {}
            /\ decision.right - decision.left < timestep_max
            /\ \A k \in InInterval : WithinDm(k, decision.overhead))

\* a removal although a history sample at or before left is more than dm off
\* the line, and two history samples lie strictly between left and right
C12_OutsideIgnored ==
    /\ decision.dropped
    /\ Cardinality(InInterval) >= 2
    /\ \E k \in 1..Len(last_5_mjds) :
           /\ last_5_mjds[k] <= decision.left
           /\ ~WithinDm(k, decision.overhead)

-----------------------------------------------------------------------------
(* C13 *)

\* the number of samples evaluated after the sample of timestamp t
EvaluatedAfter(t) == Cardinality({e \in Range(evaluated) : e.mjd > t})

\* C13: the history holds exactly the last HistorySize evaluated samples
\* (all of them while there are fewer), in the order of evaluation, the
\* timestamp and the magnitudes of a sample at the same index of last_5_mjds
\* and last_5_mags; a sample removed from the lists is still in the history
\* as long as no more than four samples were evaluated after it.
C13_HistoryIsLastFive ==
    LET n == Len(evaluated)
        k == IF n < HistorySize THEN n ELSE HistorySize
    IN  /\ Len(last_5_mjds) = k
        /\ Len(last_5_mags) = k
        /\ \A j \in 1..k :
               /\ last_5_mjds[j] = evaluated[n - k + j].mjd
               /\ last_5_mags[j] = evaluated[n - k + j].sample.mags
        /\ \A d \in Drops :
               EvaluatedAfter(d.mid) <= HistorySize - 1
                   => d.mid \in Range(last_5_mjds)

\* the history has overflowed; a sample that was removed from the lists is
\* the oldest entry of the history, four samples after it, and another
\* removed sample has left the history
C13_Witness ==
    /\ Len(evaluated) > HistorySize
    /\ \E d \in Drops :
           /\ d.mid \notin Range(Retained)
           /\ last_5_mjds[1] = d.mid
           /\ EvaluatedAfter(d.mid) = HistorySize - 1
    /\ \E d \in Drops : d.mid \notin Range(last_5_mjds)

-----------------------------------------------------------------------------
(* C14 *)

\* one pass of the loop body of lines 80-146 for the sky s
ProcessSample(s) == SkipSample(s) \/ EvaluateSample(s)

\* C14: processing a timestamp for which the brightness model reports a sun
\* altitude above sunLimit changes neither the lists of retained samples
\* (timestamps, airmass, sun altitudes, masks, magnitudes per band) nor the
\* history and makes no decision; and every retained sample has a model sun
\* altitude at or below sunLimit.
C14_SkippedLeavesNoTrace ==
    /\ [][\A s \in SkyInputs :
             (s.sunAlt > sunLimit /\ ProcessSample(s)) =>
                 /\ idx' = idx + 1
                 /\ UNCHANGED <<dict_of_lists, sky_brightness, last_5_mjds,
                                last_5_mags, evaluated, decisions>>
                 /\ ~decision'.made]_vars
    /\ [](\A k \in 1..Len(dict_of_lists.sunAlts) :
             dict_of_lists.sunAlts[k] <= sunLimit)

\* a timestamp was just skipped where four samples are retained, so that an
\* evaluated sample would have brought a decision
C14_Witness ==
    /\ pc = "loop"
    /\ idx - 1 > Len(evaluated)
    /\ Len(Retained) > MinDecide
    /\ ~decision.made

-----------------------------------------------------------------------------
(* C15 *)

\* the comparison of history sample k with the line from left to right
\* involves a NaN in filter f at location l
NaNPair(k, f, l) ==
    \/ IsNaN(last_5_mags[k][f][l])
    \/ IsNaN(MagAt(decision.left, f, l))
    \/ IsNaN(MagAt(decision.right, f, l))

\* every pair of the comparison over the locations S is a NaN pair or is
\* within dm
NaNOrWithinDm(S) ==
    \A k \in InInterval : \A f \in Filters : \A l \in S :
        \/ NaNPair(k, f, l)
        \/ DiffTimesSpan(last_5_mags[k][f][l], MagAt(decision.left, f, l),
                         MagAt(decision.right, f, l),
                         decision.left, last_5_mjds[k], decision.right)
               <= dm * (decision.right - decision.left)

\* C15, as claimed: when the overhead set (overhead and unmasked at left and
\* at right) is not empty, the gap is below timestep_max and every compared
\* pair over that set is a NaN pair or within dm (every pair being NaN
\* included), the middle sample is removed: a NaN never keeps a sample.
C15_NaNNeverKeeps ==
    (/\ decision.made
     /\ LeftRightOverhead(decision) # {}
     /\ decision.right - decision.left < timestep_max
     /\ NaNOrWithinDm(LeftRightOverhead(decision)))
        => decision.dropped

\* C15 on the overhead set the decision computed
C15_NaNNeverKeepsComputed ==
    (/\ decision.made
     /\ decision.overhead # {}
     /\ decision.right - decision.left < timestep_max
     /\ NaNOrWithinDm(decision.overhead))
        => decision.dropped

\* a removal whose comparison met a NaN pair at a location of the computed
\* overhead set
C15_NaNDropped ==
    /\ decision.dropped
    /\ \E k \in InInterval : \E f \in Filters : \E l \in decision.overhead :
           NaNPair(k, f, l)

-----------------------------------------------------------------------------
(* C16 *)

\* the timestamps of the fine grid from mjd0 to mjd_max
FineGrid == {mjd0 + k * timestep : k \in 0..(duration \div timestep)}

\* C16, as claimed: the list of timestamps handed to the evaluation loop
\* holds, in order, exactly the timestamps of the fine grid from mjd0 to
\* mjd_max whose sun altitude is at or below the limit, the limit being the
\* argument in degrees converted to radians once.
C16_CandidatesBelowLimit ==
    [][pc = "filter" =>
         /\ Range(mjds) = FineGrid
         /\ mjds' = WhereSeq(mjds, sunAlts, Radians(sunLimitArg))]_vars

-----------------------------------------------------------------------------
(* C17 *)

\* the evaluated samples strictly between the left and the right sample of
\* the last decision
EvaluatedBetween ==
    {e.mjd : e \in {x \in Range(evaluated) :
                       Between(decision.left, x.mjd, decision.right)}}

\* C17: when timestep_max is at most six timesteps, at every decision that
\* gets as far as the tolerance check (left and right less than timestep_max
\* apart), and so at every decision that removes a sample, every evaluated
\* sample strictly between left and right is in the history, the samples
\* removed by earlier decisions included.
C17_HistoryComplete ==
    (timestep_max <= 6 * timestep /\ decision.made /\ decision.gap_ok)
        => EvaluatedBetween \subseteq Range(last_5_mjds)

\* the same without the bound on timestep_max
C17_HistoryCompleteUnbounded ==
    (decision.made /\ decision.gap_ok)
        => EvaluatedBetween \subseteq Range(last_5_mjds)

\* with timestep_max of six timesteps, a removal with four evaluated samples
\* between left and right, three of them removed before, after the history
\* has overflowed
C17_Witness ==
    /\ timestep_max = 6 * timestep
    /\ decision.dropped
    /\ Len(evaluated) > HistorySize
    /\ Cardinality(EvaluatedBetween) = HistorySize - 1
    /\ Cardinality(EvaluatedBetween \ Range(Retained)) = HistorySize - 1

-----------------------------------------------------------------------------
(* C18 *)

\* the smaller of two numbers
Min(a, b) == IF a < b THEN a ELSE b

\* C18: after every step the first two evaluated samples are the first two
\* retained samples, the sample evaluated last is the last retained sample,
\* and the lists hold at least min(n, 3) samples, n the number of samples
\* evaluated so far; so do the saved lists.
C18_EndpointsRetained ==
    LET n == Len(evaluated)
    IN  /\ Len(Retained) >= Min(n, MinDecide)
        /\ \A k \in 1..Min(n, MinDecide - 1) : Retained[k] = evaluated[k].mjd
        /\ n >= 1 => Retained[Len(Retained)] = evaluated[n].mjd
        /\ pc = "done" => Len(Saved.dict_of_lists.mjds) >= Min(n, MinDecide)

\* a saved run that evaluated five samples and removed every sample it
\* could: the first two and the last are what is left
C18_Witness ==
    /\ pc = "done"
    /\ Len(evaluated) = MinDecide + 2
    /\ Len(Saved.dict_of_lists.mjds) = MinDecide
    /\ Cardinality(Drops) = 2

-----------------------------------------------------------------------------
(* C19 *)

\* the sample evaluated next after the sample of timestamp t
NextEvaluated(t) == SetMin({e.mjd : e \in {x \in Range(evaluated) : x.mjd > t}})

\* what the decisions so far say about the lists: a sample is the middle
\* sample of at most one decision, the one made when the sample evaluated
\* next is the right sample; a middle sample that was kept and every left
\* sample are in the lists, and a sample is missing from the lists only by
\* the decision about it
DecisionsFinal ==
    /\ \A d1 \in decisions : \A d2 \in decisions : d1.mid = d2.mid => d1 = d2
    /\ \A d \in decisions :
           /\ d.right = NextEvaluated(d.mid)
           /\ ~d.dropped => d.mid \in Range(Retained)
           /\ d.left \in Range(Retained)
    /\ \A e \in Range(evaluated) :
           e.mjd \notin Range(Retained) =>
               \E d \in decisions : d.mid = e.mjd /\ d.dropped

\* one step of the loop leaves the list of timestamps as it is, appends a
\* timestamp to it, or appends one and removes the entry that was last
OneRemovalAtMost ==
    LET R == dict_of_lists.mjds
        R1 == dict_of_lists'.mjds
    IN  \/ R1 = R
        \/ Len(R1) = Len(R) + 1 /\ SubSeq(R1, 1, Len(R)) = R
        \/ /\ Len(R1) = Len(R)
           /\ Len(R) > MinDecide - 1
           /\ SubSeq(R1, 1, Len(R) - 1) = SubSeq(R, 1, Len(R) - 1)
           /\ R1[Len(R)] \notin Range(R)

\* C19: each evaluated sample is up for removal at most once, at the
\* decision made when the next evaluated sample is appended; one step
\* removes at most one sample, and only the one that was last in the lists
\* before the step (second to last once the new one is appended); a sample
\* that was kept by its decision, or was a left sample, is never removed.
C19_DecisionsAreFinal ==
    /\ []DecisionsFinal
    /\ [][OneRemovalAtMost]_vars

\* a sample was kept by its decision and was then the left sample of a
\* decision that removed its middle sample
C19_Witness ==
    \E d1 \in decisions : \E d2 \in decisions :
        /\ ~d1.dropped
        /\ d2.dropped
        /\ d2.left = d1.mid


====
